---- MODULE Spec2Model ----
(***************************************************************************)
(* MIS dashboard: app.py (dashboard page), pages/1_Report_PPT.py (report   *)
(* page) and pages/2_Data_Dictionary.py (mapping editor), sharing the      *)
(* Streamlit session_state keys "mapping" and "df".                        *)
(*                                                                         *)
(* A table is [cols |-> sequence of column labels, rows |-> sequence of    *)
(* rows], a row being a sequence of cells aligned with cols.  A cell is a   *)
(* record tagged by k:                                                     *)
(*   [k |-> "nan"]                      missing (NaN / NaT / None)         *)
(*   [k |-> "num", n |-> i]             a number                           *)
(*   [k |-> "text", s |-> str]          a string that is no number and no  *)
(*                                      date                               *)
(*   [k |-> "datestr", fmt, day, tod]   a date string; fmt "iso" is the    *)
(*                                      format pd.to_datetime accepts for  *)
(*                                      the column, fmt "loose" one that   *)
(*                                      only dateutil's parser accepts     *)
(*   [k |-> "ts", day |-> d, tod |-> h] a Timestamp, day d, time of day h   *)
(*                                      (0 is midnight)                    *)
(***************************************************************************)
EXTENDS Integers, Sequences, FiniteSets, TLC

VARIABLES
    mapping,    \* st.session_state["mapping"]
    df,         \* st.session_state["df"]
    page,       \* the page whose script ran last
    msg,        \* the blocking / status message that run produced
    raw,        \* dashboard: the table read from the upload (or the sample)
    preselect,  \* dashboard: auto-detected source column per standard field
    drange,     \* dashboard: value of the "Date range" widget
    picked,     \* dashboard: value of each category multiselect
    cands,      \* dashboard: options offered by each category multiselect
    view,       \* dashboard: the filtered table (detailed table / CSV export)
    kpis,       \* dashboard: result of build_kpis
    issues,     \* dashboard: result of validate_data
    ran,        \* dashboard: which of validate_data/build_kpis/build_charts ran
    reportDf,   \* report page: the table it reads
    vals,       \* report page: the KPI values of the preview and the KPI slide
    txt,        \* data dictionary: content of the text area at the last run
    fn_tbl,     \* pipeline harness: current table
    fn_prev,    \* pipeline harness: table before the last step
    fn_map,     \* pipeline harness: the Mapping Table in use
    fn_stage,   \* pipeline harness: last step applied
    fn_raised,  \* pipeline harness: the last step raised
    fn_kpis     \* pipeline harness: result of build_kpis

appVars == <<raw, preselect, drange, picked, cands, view, kpis, issues, ran>>
sessVars == <<mapping, df, page, msg, reportDf, vals, txt>>
fnVars == <<fn_tbl, fn_prev, fn_map, fn_stage, fn_raised, fn_kpis>>
vars == <<mapping, df, page, msg, raw, preselect, drange, picked, cands, view,
          kpis, issues, ran, reportDf, vals, txt,
          fn_tbl, fn_prev, fn_map, fn_stage, fn_raised, fn_kpis>>

----------------------------------------------------------------------------
(* Bounds *)

MaxRows == 2
MaxDay == 2

----------------------------------------------------------------------------
(* Cells *)

NaN == [k |-> "nan"]
Num(i) == [k |-> "num", n |-> i]
Text(s) == [k |-> "text", s |-> s]
DateStr(f, d, h) == [k |-> "datestr", fmt |-> f, day |-> d, tod |-> h]
Ts(d, h) == [k |-> "ts", day |-> d, tod |-> h]

IsNa(c) == c.k = "nan"

\* Absent values of the session and of the page outputs
NotSet == [k |-> "notset"]
None == [k |-> "none"]
\* "no column": found = None in normalize_columns, the "-- None --" option of
\* a selectbox
NoCol == "-- None --"

----------------------------------------------------------------------------
(* Generic helpers on sequences *)

Range(s) == {s[i] : i \in 1..Len(s)}

RECURSIVE SumSeq(_)
SumSeq(s) == IF s = <<>> THEN 0 ELSE Head(s) + SumSeq(Tail(s))

RECURSIVE SeqsUpTo(_, _)
SeqsUpTo(S, n) ==
    IF n = 0 THEN {<<>>}
    ELSE LET shorter == SeqsUpTo(S, n - 1)
         IN shorter \cup {Append(s, x) : s \in {t \in shorter : Len(t) = n - 1}, x \in S}

----------------------------------------------------------------------------
(* Column labels and str.lower() *)

StdOrder == <<"date", "segment", "region", "channel", "product", "orders",
              "units", "gmv", "revenue", "cost", "customers">>
StdFields == Range(StdOrder)

\* str.lower() on the labels that occur in the model
Lower(s) ==
    CASE s = "Date" -> "date"
      [] s = "State" -> "state"
      [] s = "Channel" -> "channel"
      [] s = "Territory" -> "territory"
      [] s = "Revenue" -> "revenue"
      [] OTHER -> s

Entry(key, candidates) == [key |-> key, cands |-> candidates]

\* A Mapping Table is a JSON object: its items in insertion order
Obj(items) == [t |-> "object", items |-> items]

DEFAULT_MAPPING ==
    Obj(<< Entry("date", <<"date", "Date", "txn_date">>),
           Entry("segment", <<"segment", "customer_segment">>),
           Entry("region", <<"region", "state", "zone">>),
           Entry("channel", <<"channel", "sales_channel">>),
           Entry("product", <<"product", "sku", "item_name">>),
           Entry("orders", <<"orders", "order_count">>),
           Entry("units", <<"units", "qty", "quantity">>),
           Entry("gmv", <<"gmv", "gross_sales", "sales_value">>),
           Entry("revenue", <<"revenue", "net_sales">>),
           Entry("cost", <<"cost", "cogs", "expenses">>),
           Entry("customers", <<"customers", "unique_customers", "active_users">>) >>)

Keys(m) == IF m.t = "object" THEN {m.items[i].key : i \in 1..Len(m.items)} ELSE {}

----------------------------------------------------------------------------
(* Tables *)

Table(cols, rows) == [cols |-> cols, rows |-> rows]
HasCol(t, c) == c \in Range(t.cols)
ColIdx(t, c) == CHOOSE i \in 1..Len(t.cols) : t.cols[i] = c
Column(t, c) == [r \in 1..Len(t.rows) |-> t.rows[r][ColIdx(t, c)]]
UniqueCols(t) == Cardinality(Range(t.cols)) = Len(t.cols)
\* variant: only a table without columns counts as empty
EmptyNoColumns(t) == Len(t.cols) = 0
\* DataFrame.empty: some axis has length 0
Empty(t) == Len(t.rows) = 0 \/ Len(t.cols) = 0

\* df.rename(columns=rename_map): rename_map is a function on a set of labels
Rename(t, rename_map) ==
    Table([i \in 1..Len(t.cols) |->
              IF t.cols[i] \in DOMAIN rename_map THEN rename_map[t.cols[i]] ELSE t.cols[i]],
          t.rows)

----------------------------------------------------------------------------
(* normalize_columns *)

\* lower_cols = {c.lower(): c for c in df.columns}: the last column wins
LowerCols(t, key) ==
    LET hits == {i \in 1..Len(t.cols) : Lower(t.cols[i]) = key}
    IN IF hits = {} THEN NoCol
       ELSE t.cols[CHOOSE i \in hits : \A j \in hits : j <= i]

\* the inner loop: first candidate whose lower-case form is a key of lower_cols
RECURSIVE FindCandidate(_, _)
FindCandidate(t, candidates) ==
    IF candidates = <<>> THEN NoCol
    ELSE IF LowerCols(t, Lower(Head(candidates))) # NoCol
         THEN LowerCols(t, Lower(Head(candidates)))
         ELSE FindCandidate(t, Tail(candidates))

\* rename_map = {v: k for k, v in chosen.items() if v is not None}, built in
\* iteration order, a later key overwriting an earlier one with the same v
RECURSIVE RenameMapOf(_)
RenameMapOf(chosenItems) ==
    IF chosenItems = <<>> THEN <<>>
    ELSE LET n == Len(chosenItems)
             last == chosenItems[n]
             rest == RenameMapOf(SubSeq(chosenItems, 1, n - 1))
         IN IF last.v = NoCol THEN rest
            ELSE [c \in (DOMAIN rest) \cup {last.v} |-> IF c = last.v THEN last.k ELSE rest[c]]

\* chosen, as the items of the dict in insertion order
Chosen(t, m) ==
    [i \in 1..Len(m.items) |-> [k |-> m.items[i].key, v |-> FindCandidate(t, m.items[i].cands)]]

IsFound(item) == item.v # NoCol

\* variant: only the matched columns are kept, in the mapping's order
normalize_columns_matched_only(t, m) ==
    LET ch == SelectSeq(Chosen(t, m), IsFound)
    IN Table([i \in 1..Len(ch) |-> ch[i].k],
             [r \in 1..Len(t.rows) |-> [i \in 1..Len(ch) |-> t.rows[r][ColIdx(t, ch[i].v)]]])

normalize_columns(t, m) == Rename(t, RenameMapOf(Chosen(t, m)))

----------------------------------------------------------------------------
(* coerce_types *)

NumStr(i) == [k |-> "numstr", n |-> i]

\* pd.to_datetime(column) accepts a cell: missing, already a Timestamp, or a
\* string in the column's format
StructuredOk(c) == c.k \in {"nan", "ts"} \/ (c.k = "datestr" /\ c.fmt = "iso")

\* parser.parse(str(x)) accepts a cell: any date string, or a Timestamp's
\* text; str(nan) = "nan" and any other text raise ParserError
LenientOk(c) == c.k \in {"datestr", "ts"}

ToTimestamp(c) == IF c.k \in {"datestr", "ts"} THEN Ts(c.day, c.tod) ELSE NaN

\* pd.to_numeric(cell, errors="coerce")
ToNumeric(c) == IF c.k \in {"num", "numstr"} THEN Num(c.n) ELSE NaN

\* df[col] = pd.to_datetime(df[col]) / pd.to_numeric(df[col]), cell by cell
ConvertColumn(t, c, how) ==
    LET j == ColIdx(t, c)
    IN Table(t.cols,
             [r \in 1..Len(t.rows) |->
                [i \in 1..Len(t.cols) |->
                   IF i # j THEN t.rows[r][i]
                   ELSE IF how = "datetime" THEN ToTimestamp(t.rows[r][i])
                   ELSE ToNumeric(t.rows[r][i])]])

NumCols == <<"orders", "units", "gmv", "revenue", "cost", "customers">>

RECURSIVE CoerceNumeric(_, _)
CoerceNumeric(t, numCols) ==
    IF numCols = <<>> THEN t
    ELSE CoerceNumeric(IF HasCol(t, Head(numCols)) THEN ConvertColumn(t, Head(numCols), "numeric") ELSE t,
                       Tail(numCols))

\* The date branch raises when the structured parse of the column fails and
\* the per-cell parse inside the except handler raises on some cell.
DateRaises(t) ==
    /\ HasCol(t, "date")
    /\ \E r \in 1..Len(t.rows) : ~StructuredOk(Column(t, "date")[r])
    /\ \E r \in 1..Len(t.rows) : ~LenientOk(Column(t, "date")[r])

coerce_types(t) ==
    IF DateRaises(t) THEN [raised |-> TRUE, tbl |-> t]
    ELSE [raised |-> FALSE,
          tbl |-> CoerceNumeric(IF HasCol(t, "date") THEN ConvertColumn(t, "date", "datetime") ELSE t,
                                NumCols)]

----------------------------------------------------------------------------
(* validate_data *)

NaCount(t, c) == Cardinality({r \in 1..Len(t.rows) : IsNa(Column(t, c)[r])})

RECURSIVE MissingIssues(_, _)
MissingIssues(t, i) ==
    IF i > Len(t.cols) THEN <<>>
    ELSE (IF 2 * NaCount(t, t.cols[i]) > Len(t.rows) THEN <<[issue |-> "missing>50%", col |-> t.cols[i]]>>
          ELSE <<>>)
         \o MissingIssues(t, i + 1)

validate_data(t) ==
    (IF ~HasCol(t, "date") THEN <<[issue |-> "Missing required column: date"]>> ELSE <<>>)
    \o (IF ~HasCol(t, "revenue") /\ ~HasCol(t, "gmv")
        THEN <<[issue |-> "Need at least one of: revenue or gmv"]>> ELSE <<>>)
    \o MissingIssues(t, 1)

----------------------------------------------------------------------------
(* build_kpis *)

CellNum(c) == IF c.k = "num" THEN c.n ELSE 0

\* Series.sum(): missing cells are skipped
SumCol(t, c) ==
    IF HasCol(t, c) THEN SumSeq([r \in 1..Len(t.rows) |-> CellNum(Column(t, c)[r])]) ELSE 0

\* Series.nunique(): distinct non-missing values
NUnique(t, c) == Cardinality({Column(t, c)[r] : r \in 1..Len(t.rows)} \ {NaN})

\* (a - b).sum(): the difference is missing where either operand is
SumDiff(t, a, b) ==
    SumSeq([r \in 1..Len(t.rows) |->
              IF IsNa(Column(t, a)[r]) \/ IsNa(Column(t, b)[r]) THEN 0
              ELSE CellNum(Column(t, a)[r]) - CellNum(Column(t, b)[r])])

\* round(p / q) to the nearest integer, ties to even, q # 0
RoundDiv(p, q) ==
    LET n == IF q < 0 THEN 0 - p ELSE p
        d == IF q < 0 THEN 0 - q ELSE q
        fl == n \div d
        rem == n - fl * d
    IN IF 2 * rem < d THEN fl
       ELSE IF 2 * rem > d THEN fl + 1
       ELSE IF fl % 2 = 0 THEN fl ELSE fl + 1

\* np.round(100 * (1 - cost / (sales or 1)), 2), in hundredths of a percent
GmPct(salesSum, costSum) ==
    LET s == IF salesSum = 0 THEN 1 ELSE salesSum
    IN RoundDiv(10000 * (s - costSum), s)

SalesCol(t) == IF HasCol(t, "revenue") THEN "revenue" ELSE "gmv"

build_kpis(t) ==
    LET base == [Revenue |-> Num(IF HasCol(t, "revenue") THEN SumCol(t, "revenue") ELSE SumCol(t, "gmv")),
                 Orders |-> Num(SumCol(t, "orders")),
                 Units |-> Num(SumCol(t, "units")),
                 Customers |-> IF HasCol(t, "customers") THEN Num(NUnique(t, "customers")) ELSE NaN]
    IN IF HasCol(t, "cost") /\ (HasCol(t, "revenue") \/ HasCol(t, "gmv"))
       THEN [key \in {"Revenue", "Orders", "Units", "Customers", "Gross Margin", "GM %"} |->
               IF key = "Gross Margin" THEN Num(SumDiff(t, SalesCol(t), "cost"))
               ELSE IF key = "GM %" THEN Num(GmPct(SumCol(t, SalesCol(t)), SumCol(t, "cost")))
               ELSE base[key]]
       ELSE base

----------------------------------------------------------------------------
(* Filter engine of app.py *)

Days == 0..MaxDay

\* pd.to_datetime(a datetime.date): midnight of that day
DayStart(d) == Ts(d, 0)

TsLeq(a, b) == a.day < b.day \/ (a.day = b.day /\ a.tod <= b.tod)

\* values of the "Date range" widget: no date, one date, or a pair lo <= hi
DateRanges == {<<>>} \cup {<<d>> : d \in Days}
              \cup {p \in Days \X Days : p[1] <= p[2]}

\* variant: the upper endpoint excluded
InRangeOpen(c, dr) == c.k = "ts" /\ TsLeq(DayStart(dr[1]), c) /\ TsLeq(c, DayStart(dr[2])) /\ c # DayStart(dr[2])

InRange(c, dr) == c.k = "ts" /\ TsLeq(DayStart(dr[1]), c) /\ TsLeq(c, DayStart(dr[2]))

\* if "date" in df: ... if isinstance(drange, tuple) and len(drange) == 2: ...
DateFilter(t, dr) ==
    IF HasCol(t, "date") /\ Len(dr) = 2
    THEN LET j == ColIdx(t, "date")
             Keep(row) == InRange(row[j], dr)
         IN Table(t.cols, SelectSeq(t.rows, Keep))
    ELSE t

\* sorted() on the category strings of the model
StrRank(s) ==
    CASE s = "B2B" -> 1
      [] s = "B2C" -> 2
      [] s = "N" -> 3
      [] s = "S" -> 4
      [] OTHER -> 5

RECURSIVE Sorted(_)
Sorted(S) ==
    IF S = {} THEN <<>>
    ELSE LET m == CHOOSE x \in S : \A y \in S : StrRank(x.s) <= StrRank(y.s)
         IN <<m>> \o Sorted(S \ {m})

\* vals = sorted([v for v in df[col].dropna().unique()]) if col in df else []
CandidateVals(t, c) ==
    IF HasCol(t, c) THEN Sorted({Column(t, c)[r] : r \in 1..Len(t.rows)} \ {NaN}) ELSE <<>>

\* variant: the selection is not applied
multi_filter_unapplied(t, c, pick) == t

\* return df[df[col].isin(picked)] if picked else df
multi_filter(t, c, pick) ==
    IF pick # {}
    THEN LET j == ColIdx(t, c)
             Keep(row) == row[j] \in pick
         IN Table(t.cols, SelectSeq(t.rows, Keep))
    ELSE t

CatOrder == <<"segment", "region", "channel", "product">>
CatCols == Range(CatOrder)

\* one iteration of: for c in [...]: df = multi_filter(c) if c in df else df
\* The multiselect offers the candidate values of the table it is handed.
Picks(t, c) == IF HasCol(t, c) THEN SUBSET Range(CandidateVals(t, c)) ELSE {{}}
FilterStep(t, c, pick) == IF HasCol(t, c) THEN multi_filter(t, c, pick) ELSE t

----------------------------------------------------------------------------
(* Column Mapping expander of app.py *)

\* for real in raw.columns: if real.lower() == cand.lower(): first such column
FirstReal(t, cand) ==
    LET hits == {i \in 1..Len(t.cols) : Lower(t.cols[i]) = Lower(cand)}
    IN IF hits = {} THEN NoCol
       ELSE t.cols[CHOOSE i \in hits : \A j \in hits : i <= j]

RECURSIVE AutoDetect(_, _)
AutoDetect(t, candidates) ==
    IF candidates = <<>> THEN NoCol
    ELSE IF FirstReal(t, Head(candidates)) # NoCol THEN FirstReal(t, Head(candidates))
         ELSE AutoDetect(t, Tail(candidates))

\* the preselected option of every selectbox; the loop runs over the items of
\* the table m
PreselectOf(t, m) ==
    [i \in 1..Len(m.items) |-> [k |-> m.items[i].key, v |-> AutoDetect(t, m.items[i].cands)]]

\* the mapping table the expander iterates
ExpanderMapping(sessionMapping) == DEFAULT_MAPPING

\* selectbox values: the preselection, with at most one box set by the user
\* to "-- None --"
Selections(pre) ==
    {pre} \cup {[pre EXCEPT ![i].v = NoCol] : i \in 1..Len(pre)}

----------------------------------------------------------------------------
(* Inputs of the dashboard page *)

HeaderA == <<"Date", "State", "net_sales", "cost">>
HeaderB == <<"date", "Territory", "Revenue", "cogs">>

\* what load_data / pd.read_csv return for the files uploaded in a session: a
\* file with a header only, two well-formed files, and one whose date column
\* mixes a second date format with a blank
SessionUploads ==
    { Table(HeaderA, <<>>),
      Table(HeaderA, << <<DateStr("iso", 0, 0), Text("N"), Num(100), Num(40)>>,
                        <<DateStr("iso", 2, 1), Text("S"), NumStr(200), Num(60)>> >>),
      Table(HeaderB, << <<DateStr("iso", 1, 0), Text("N"), Num(50), NaN>>,
                        <<NaN, Text("S"), Text("n/a"), Num(10)>> >>),
      Table(HeaderA, << <<DateStr("loose", 1, 0), Text("S"), Num(30), Num(5)>>,
                        <<NaN, NaN, Num(1), Num(1)>> >>) }

\* values of the "Date range" widget tried in a session
SessionRanges == {<<0>>, <<0, 0>>, <<1, 1>>, <<0, 2>>}

\* st.sidebar.date_input needs a default range, so a non-empty table with a
\* date column has a date in it
HasDefaultRange(t) ==
    HasCol(t, "date") => \E r \in 1..Len(t.rows) : ~IsNa(Column(t, "date")[r])

NoPicks == [c \in CatCols |-> {}]
NoCands == [c \in CatCols |-> <<>>]

----------------------------------------------------------------------------
(* JSON text of the Data Dictionary page *)

\* json.dumps(value): a complete document
json_dumps(value) == [doc |-> value, complete |-> TRUE]
\* a document cut off before its closing brace
Truncated(value) == [doc |-> value, complete |-> FALSE]

\* json.loads(text): the value, or JSONDecodeError
json_loads(text) ==
    IF text.complete THEN [ok |-> TRUE, value |-> text.doc] ELSE [ok |-> FALSE, value |-> None]

\* the default table with "territory" added to and "state" removed from region
TerritoryMapping ==
    Obj([i \in 1..Len(DEFAULT_MAPPING.items) |->
           IF DEFAULT_MAPPING.items[i].key = "region"
           THEN Entry("region", <<"region", "territory", "zone">>)
           ELSE DEFAULT_MAPPING.items[i]])

RegionOnlyMapping == Obj(<<Entry("region", <<"region", "state">>)>>)

\* what the user may leave in the text area
EditedTexts(current) ==
    { json_dumps(current), json_dumps(TerritoryMapping), json_dumps(RegionOnlyMapping),
      Truncated(current) }

----------------------------------------------------------------------------
(* Session *)

Init ==
    /\ mapping = NotSet
    /\ df = NotSet
    /\ page = "none"
    /\ msg = ""
    /\ raw = None
    /\ preselect = <<>>
    /\ drange = <<>>
    /\ picked = NoPicks
    /\ cands = NoCands
    /\ view = None
    /\ kpis = None
    /\ issues = <<>>
    /\ ran = {}
    /\ reportDf = None
    /\ vals = None
    /\ txt = None
    /\ fn_tbl = None
    /\ fn_prev = None
    /\ fn_map = None
    /\ fn_stage = "off"
    /\ fn_raised = FALSE
    /\ fn_kpis = None

\* variant: the session starts from an empty table
InitMappingEmpty(m) == IF m = NotSet THEN Obj(<<>>) ELSE m

\* if "mapping" not in st.session_state: ...; if "df" not in st.session_state: ...
InitMapping(m) == IF m = NotSet THEN DEFAULT_MAPPING ELSE m
InitDf(d) == IF d = NotSet THEN None ELSE d

\* app.py aborted before the filters: nothing of the main layout is rendered
AppHalted(file, pre, message, sessionDf) ==
    /\ df' = sessionDf
    /\ msg' = message
    /\ raw' = file
    /\ preselect' = pre
    /\ drange' = <<>>
    /\ picked' = NoPicks
    /\ cands' = NoCands
    /\ view' = None
    /\ kpis' = None
    /\ issues' = <<>>
    /\ ran' = {}

\* the filters and the main layout, on the table read back from the session
AppFilterAndRender(file, pre, d, ranges) ==
    \E dr \in ranges :
      LET t0 == DateFilter(d, dr)
      IN \E p1 \in Picks(t0, CatOrder[1]) :
         LET t1 == FilterStep(t0, CatOrder[1], p1)
         IN \E p2 \in Picks(t1, CatOrder[2]) :
            LET t2 == FilterStep(t1, CatOrder[2], p2)
            IN \E p3 \in Picks(t2, CatOrder[3]) :
               LET t3 == FilterStep(t2, CatOrder[3], p3)
               IN \E p4 \in Picks(t3, CatOrder[4]) :
                  LET t4 == FilterStep(t3, CatOrder[4], p4)
                      shown == t4
                  IN /\ df' = d
                     /\ msg' = ""
                     /\ raw' = file
                     /\ preselect' = pre
                     /\ drange' = dr
                     /\ picked' = [c \in CatCols |->
                                     IF c = CatOrder[1] THEN p1 ELSE IF c = CatOrder[2] THEN p2
                                     ELSE IF c = CatOrder[3] THEN p3 ELSE p4]
                     /\ cands' = [c \in CatCols |->
                                    IF c = CatOrder[1] THEN CandidateVals(t0, c)
                                    ELSE IF c = CatOrder[2] THEN CandidateVals(t1, c)
                                    ELSE IF c = CatOrder[3] THEN CandidateVals(t2, c)
                                    ELSE CandidateVals(t3, c)]
                     /\ view' = shown
                     /\ issues' = validate_data(shown)
                     /\ kpis' = build_kpis(shown)
                     /\ ran' = {"validate_data", "build_kpis", "build_charts"}

\* One run of app.py
RenderApp ==
    \E file \in SessionUploads :
      LET pre == PreselectOf(file, ExpanderMapping(InitMapping(mapping)))
      IN \E sel \in Selections(pre) :
           LET renamed == Rename(file, RenameMapOf(sel))
               co == coerce_types(renamed)
           IN /\ UniqueCols(renamed)
              /\ mapping' = InitMapping(mapping)
              /\ page' = "app"
              /\ reportDf' = None
              /\ vals' = None
              /\ txt' = None
              /\ UNCHANGED fnVars
              /\ IF co.raised
                 THEN AppHalted(file, pre, "exception", InitDf(df))
                 ELSE IF Empty(co.tbl)
                 THEN AppHalted(file, pre, "No data available after mapping.", co.tbl)
                 ELSE /\ HasDefaultRange(co.tbl)
                      /\ AppFilterAndRender(file, pre, co.tbl, SessionRanges)

----------------------------------------------------------------------------
(* pages/1_Report_PPT.py *)

\* metric = "revenue" if present, else "gmv" if present, else None
ReportMetric(t) ==
    IF HasCol(t, "revenue") THEN "revenue" ELSE IF HasCol(t, "gmv") THEN "gmv" ELSE NoCol

\* the KPI preview, reused by the "Key Metrics" slide of build_ppt
ReportVals(t) ==
    LET metric == ReportMetric(t)
    IN [key \in {"Revenue", "Orders", "Units", "GM %"} |->
          IF key = "Revenue" THEN Num(IF metric # NoCol THEN SumCol(t, metric) ELSE 0)
          ELSE IF key = "Orders" THEN Num(SumCol(t, "orders"))
          ELSE IF key = "Units" THEN Num(SumCol(t, "units"))
          ELSE IF HasCol(t, "cost") /\ metric # NoCol
               THEN Num(GmPct(SumCol(t, metric), SumCol(t, "cost")))
               ELSE NaN]

\* df = st.session_state.get("df")
ReportInput(sessionDf) == IF sessionDf = NotSet THEN None ELSE sessionDf

\* One run of the report page, with or without "Generate PowerPoint" pressed
RenderReport ==
    \E generate \in BOOLEAN :
      LET d == ReportInput(df)
      IN /\ page' = "report"
         /\ txt' = None
         /\ IF d = None \/ Empty(d)
            THEN /\ msg' = "No data available."
                 /\ reportDf' = None
                 /\ vals' = None
            ELSE /\ msg' = IF generate THEN "deck" ELSE "preview"
                 /\ reportDf' = d
                 /\ vals' = ReportVals(d)
         /\ UNCHANGED <<mapping, df>>
         /\ UNCHANGED appVars
         /\ UNCHANGED fnVars

----------------------------------------------------------------------------
(* pages/2_Data_Dictionary.py *)

\* st.session_state.get("mapping", {})
DictionaryDefault(m) == IF m = NotSet THEN Obj(<<>>) ELSE m

\* variant: the table is cleared before the text is parsed
SaveResultClearedFirst(current, text) ==
    IF json_loads(text).ok THEN json_loads(text).value ELSE Obj(<<>>)

\* the try block of "Save mapping": the session's table after the press
SaveResult(current, text) ==
    IF json_loads(text).ok THEN json_loads(text).value ELSE current

\* One run of the page without the button: the text area shows the dump
ShowDictionary ==
    /\ page' = "dictionary"
    /\ txt' = json_dumps(DictionaryDefault(mapping))
    /\ msg' = ""
    /\ reportDf' = None
    /\ vals' = None
    /\ UNCHANGED <<mapping, df>>
    /\ UNCHANGED appVars
    /\ UNCHANGED fnVars

\* One run of the page with "Save mapping" pressed on the text in the area
SaveMapping ==
    \E text \in EditedTexts(DictionaryDefault(mapping)) :
      /\ page' = "dictionary"
      /\ txt' = text
      /\ mapping' = SaveResult(mapping, text)
      /\ msg' = IF json_loads(text).ok THEN "Saved in session." ELSE "Invalid JSON"
      /\ reportDf' = None
      /\ vals' = None
      /\ UNCHANGED df
      /\ UNCHANGED appVars
      /\ UNCHANGED fnVars

Next == RenderApp \/ RenderReport \/ ShowDictionary \/ SaveMapping

Spec == Init /\ [][Next]_vars

----------------------------------------------------------------------------
(* The filter pass of app.py on its own: every Dataset within the bounds,   *)
(* every value of the date widget and of the multiselects                   *)

FilterHeader == <<"date", "segment", "region", "revenue">>

FilterRowPool ==
    { <<DateStr("iso", 0, 0), Text("B2B"), Text("N"), Num(100)>>,
      <<DateStr("iso", MaxDay, 0), Text("B2C"), Text("N"), Num(200)>>,
      <<DateStr("iso", 1, 1), Text("B2B"), Text("S"), Num(50)>>,
      <<NaN, Text("B2C"), NaN, Num(10)>>,
      <<DateStr("iso", 1, 0), NaN, Text("S"), NaN>> }

\* the Datasets: mapped and coerced tables the page does not stop on
FilterDatasets ==
    {d \in {coerce_types(Table(FilterHeader, rows)).tbl : rows \in SeqsUpTo(FilterRowPool, MaxRows)} :
        ~Empty(d) /\ HasDefaultRange(d)}

InitFilter ==
    /\ mapping = DEFAULT_MAPPING
    /\ df \in FilterDatasets
    /\ page = "app"
    /\ msg = ""
    /\ raw = None
    /\ preselect = <<>>
    /\ drange = <<>>
    /\ picked = NoPicks
    /\ cands = NoCands
    /\ view = None
    /\ kpis = None
    /\ issues = <<>>
    /\ ran = {}
    /\ reportDf = None
    /\ vals = None
    /\ txt = None
    /\ fn_tbl = None
    /\ fn_prev = None
    /\ fn_map = None
    /\ fn_stage = "off"
    /\ fn_raised = FALSE
    /\ fn_kpis = None

\* df = st.session_state["df"], the filters and the main layout
FilterPass ==
    /\ view = None
    /\ AppFilterAndRender(raw, preselect, df, DateRanges)
    /\ UNCHANGED <<mapping, page, reportDf, vals, txt>>
    /\ UNCHANGED fnVars

NextFilter == FilterPass

SpecFilter == InitFilter /\ [][NextFilter]_vars

----------------------------------------------------------------------------
(* Column Mapper, Type Coercer and KPI Calculator as a pipeline of pure     *)
(* functions                                                                *)

FnHeaders == { <<"date", "region", "revenue", "cost">>,
               HeaderA,
               <<"txn_date", "zone", "gmv", "customers">>,
               <<"date", "region", "gmv", "units">> }

FnRowPool ==
    { <<DateStr("iso", 0, 0), Text("N"), Num(100), Num(40)>>,
      <<DateStr("iso", 1, 0), Text("S"), Num(200), Num(60)>>,
      <<DateStr("loose", 1, 1), Text("N"), NumStr(50), NaN>>,
      <<NaN, NaN, NaN, Num(10)>>,
      <<Text("tbd"), Text("S"), Text("n/a"), Num(5)>> }

FnTables == {Table(h, rows) : h \in FnHeaders, rows \in SeqsUpTo(FnRowPool, MaxRows)}

\* a saved table in which gmv falls back to the revenue column
SalesFallbackMapping ==
    Obj(<< Entry("date", <<"date", "txn_date">>),
           Entry("revenue", <<"revenue", "net_sales">>),
           Entry("gmv", <<"gmv", "revenue">>) >>)

FnMappings == {DEFAULT_MAPPING, RegionOnlyMapping, SalesFallbackMapping}

InitFn ==
    /\ mapping = NotSet
    /\ df = NotSet
    /\ page = "none"
    /\ msg = ""
    /\ raw = None
    /\ preselect = <<>>
    /\ drange = <<>>
    /\ picked = NoPicks
    /\ cands = NoCands
    /\ view = None
    /\ kpis = None
    /\ issues = <<>>
    /\ ran = {}
    /\ reportDf = None
    /\ vals = None
    /\ txt = None
    /\ fn_tbl \in FnTables
    /\ fn_prev = None
    /\ fn_map \in FnMappings
    /\ fn_stage = "raw"
    /\ fn_raised = FALSE
    /\ fn_kpis = None

NormalizeStep ==
    /\ fn_stage \in {"raw", "mapped"}
    /\ fn_prev' = fn_tbl
    /\ fn_tbl' = normalize_columns(fn_tbl, fn_map)
    /\ fn_stage' = IF fn_stage = "raw" THEN "mapped" ELSE "remapped"
    /\ UNCHANGED <<fn_map, fn_raised, fn_kpis>>
    /\ UNCHANGED sessVars
    /\ UNCHANGED appVars

CoerceStep ==
    /\ fn_stage \in {"raw", "mapped", "remapped"}
    /\ UniqueCols(fn_tbl)
    /\ fn_prev' = fn_tbl
    /\ fn_tbl' = coerce_types(fn_tbl).tbl
    /\ fn_raised' = coerce_types(fn_tbl).raised
    /\ fn_stage' = "coerced"
    /\ UNCHANGED <<fn_map, fn_kpis>>
    /\ UNCHANGED sessVars
    /\ UNCHANGED appVars

KpisStep ==
    /\ fn_stage = "coerced"
    /\ ~fn_raised
    /\ fn_kpis' = build_kpis(fn_tbl)
    /\ fn_stage' = "kpis"
    /\ UNCHANGED <<fn_tbl, fn_prev, fn_map, fn_raised>>
    /\ UNCHANGED sessVars
    /\ UNCHANGED appVars

NextFn == NormalizeStep \/ CoerceStep \/ KpisStep

SpecFn == InitFn /\ [][NextFn]_vars

----------------------------------------------------------------------------
(* Properties *)

AllRan == {"validate_data", "build_kpis", "build_charts"}
HaltMessage == "No data available after mapping."
Rendered == page = "app" /\ view # None

\* C1: the table the Report page reads for its KPI lines and top-N tables is
\* the Filtered View of the last dashboard render, not the unfiltered Dataset.
C1_ReportReadsFilteredView ==
    (page = "report" /\ reportDf # None /\ view # None) => reportDf = view

\* C2 (as stated): whenever the dataset is empty after mapping or after
\* filtering, the render pass halts with the blocking message and no
\* validate_data / build_kpis / build_charts runs, so no KPI Set is computed.
C2_HaltsOnAnyEmpty ==
    (page = "app" /\ msg # "exception"
       /\ (Len(df.rows) = 0 \/ Len(df.cols) = 0 \/ (view # None /\ Len(view.rows) = 0)))
    => (msg = HaltMessage /\ ran = {} /\ kpis = None)

\* C2 (amended): the render pass halts exactly when the Dataset is empty
\* after mapping; it then shows the blocking message and runs none of
\* validate_data, build_kpis, build_charts.  Otherwise all three run on the
\* Filtered View, also when the filters left it without rows.
C2_HaltsOnEmptyAfterMapping ==
    (page = "app" /\ msg # "exception") =>
        IF Len(df.rows) = 0 \/ Len(df.cols) = 0
        THEN msg = HaltMessage /\ ran = {} /\ kpis = None /\ view = None
        ELSE msg = "" /\ ran = AllRan /\ view # None /\ kpis = build_kpis(view)

\* C2 witnesses: a halted pass on a Dataset without rows, and a pass that
\* computed KPIs on a Filtered View without rows
C2_Witness ==
    /\ page = "app" /\ msg = HaltMessage /\ df # None /\ Len(df.rows) = 0 /\ ran = {}

C2_EmptyViewRendered ==
    /\ Rendered /\ Len(view.rows) = 0 /\ Len(df.rows) > 0 /\ kpis # None

\* C3: coerce_types never raises; unparseable date cells and non-numeric
\* cells of the numeric fields become missing; no row is dropped.
C3_CoerceNeverRaises ==
    fn_stage = "coerced" =>
        /\ ~fn_raised
        /\ Len(fn_tbl.rows) = Len(fn_prev.rows)
        /\ HasCol(fn_prev, "date") =>
              \A r \in 1..Len(fn_prev.rows) :
                 Column(fn_prev, "date")[r].k \in {"text", "nan"} => IsNa(Column(fn_tbl, "date")[r])
        /\ \A i \in 1..Len(NumCols) :
              HasCol(fn_prev, NumCols[i]) =>
                 \A r \in 1..Len(fn_prev.rows) :
                    Column(fn_prev, NumCols[i])[r].k \notin {"num", "numstr"}
                       => IsNa(Column(fn_tbl, NumCols[i])[r])

\* C4: with cost and a sales column present, Gross Margin is
\* sum(sales) - sum(cost), each sum skipping missing cells on its own;
\* without cost or without a sales column, Gross Margin and GM % are absent.
C4_GrossMarginIsDifferenceOfSums ==
    fn_stage = "kpis" =>
        IF HasCol(fn_tbl, "cost") /\ (HasCol(fn_tbl, "revenue") \/ HasCol(fn_tbl, "gmv"))
        THEN /\ "Gross Margin" \in DOMAIN fn_kpis
             /\ fn_kpis["Gross Margin"] = Num(SumCol(fn_tbl, SalesCol(fn_tbl)) - SumCol(fn_tbl, "cost"))
        ELSE "Gross Margin" \notin DOMAIN fn_kpis /\ "GM %" \notin DOMAIN fn_kpis

\* C5: after a successful "Save mapping", the next dashboard render maps the
\* columns against the session's Mapping Table: the auto-detected column of
\* every field is the one found through the saved synonyms.
C5_RenderUsesSavedMapping ==
    (page = "app" /\ raw # None /\ mapping # NotSet) => preselect = PreselectOf(raw, mapping)

\* the inclusive date predicate and the selections of the category columns
\* before position upto in CatOrder, stated on a row of table t
WithinRange(cell, dr) ==
    /\ cell.k = "ts"
    /\ cell.day >= dr[1]
    /\ (cell.day < dr[2] \/ (cell.day = dr[2] /\ cell.tod = 0))

RowKept(t, row, dr, picks, upto) ==
    /\ (HasCol(t, "date") /\ Len(dr) = 2) => WithinRange(row[ColIdx(t, "date")], dr)
    /\ \A i \in 1..(upto - 1) :
          (HasCol(t, CatOrder[i]) /\ picks[CatOrder[i]] # {})
             => row[ColIdx(t, CatOrder[i])] \in picks[CatOrder[i]]

ExpectedView(t, dr, picks, upto) ==
    LET Keep(row) == RowKept(t, row, dr, picks, upto)
    IN Table(t.cols, SelectSeq(t.rows, Keep))

\* C6: the Filtered View is exactly the Dataset rows that satisfy the
\* inclusive date range (when date is present and the range has two
\* endpoints) and, for each category column present with a non-empty
\* selection, membership of the row's value in the selection, in Dataset order.
C6_ViewIsConjunction ==
    Rendered => view = ExpectedView(df, drange, picked, Len(CatOrder) + 1)

\* C6 witness: a row dated exactly at the upper endpoint is kept while a
\* non-empty selection drops another row
C6_Witness ==
    /\ Rendered
    /\ Len(drange) = 2
    /\ \E r \in 1..Len(view.rows) : Column(view, "date")[r] = Ts(drange[2], 0)
    /\ \E c \in CatCols : picked[c] # {}
    /\ Len(view.rows) < Len(df.rows)

NoCrossSynonym(m) ==
    \A i \in 1..Len(m.items) : \A j \in 1..Len(m.items[i].cands) :
        Lower(m.items[i].cands[j]) \in StdFields => Lower(m.items[i].cands[j]) = m.items[i].key

Mapped == fn_stage \in {"mapped", "remapped"}
StdColsOnly(t) == Range(t.cols) \subseteq StdFields /\ UniqueCols(t)

\* C7 (as stated): for every table whose column names are Standard Field
\* names and every Mapping Table, normalize_columns returns the identical
\* table.
C7_IdempotentAnyMapping ==
    (Mapped /\ StdColsOnly(fn_prev)) => fn_tbl = fn_prev

\* C7 (amended): normalize_columns returns the identical table for every
\* table whose column names are Standard Field names, provided no field's
\* synonym list in the Mapping Table contains, ignoring case, the name of a
\* different Standard Field (as is the case for the built-in default table).
C7_IdempotentNoCrossSynonym ==
    (Mapped /\ StdColsOnly(fn_prev) /\ NoCrossSynonym(fn_map)) => fn_tbl = fn_prev

\* C7 witness: a second mapping of a standardized, non-empty table
C7_Witness ==
    /\ fn_stage = "remapped" /\ StdColsOnly(fn_prev) /\ fn_map = DEFAULT_MAPPING
    /\ Len(fn_tbl.rows) > 0 /\ fn_tbl = fn_prev

\* C8: a "Save mapping" on text that is not valid JSON produces the error
\* message and leaves the session's Mapping Table and Dataset as they were.
C8_InvalidJsonKeepsMapping ==
    [][(page' = "dictionary" /\ txt' # None /\ ~json_loads(txt').ok)
          => (msg' = "Invalid JSON" /\ mapping' = mapping /\ df' = df)]_vars

\* C8 witness: a failed save after a non-default table had been saved and a
\* Dataset loaded
C8_Witness ==
    /\ page = "dictionary" /\ msg = "Invalid JSON" /\ txt = Truncated(TerritoryMapping)
    /\ mapping = TerritoryMapping /\ df # NotSet /\ df # None

\* C9 (as stated): once the dashboard has initialised the session, the keys
\* of the session's Mapping Table are exactly the eleven Standard Fields.
C9_KeysAlwaysStandard ==
    (mapping # NotSet /\ raw # None) => Keys(mapping) = StdFields

\* C9 (amended): the session's Mapping Table changes only when the dashboard
\* initialises it to the built-in table, whose keys are exactly the eleven
\* Standard Fields, or when a "Save mapping" succeeds, which stores the parsed
\* JSON value whatever its keys; a failing save leaves it as it was.
C9_KeysChangeOnlyBySave ==
    [][mapping' # mapping =>
          \/ (mapping = NotSet /\ page' = "app" /\ mapping' = DEFAULT_MAPPING
                /\ Keys(mapping') = StdFields)
          \/ (page' = "dictionary" /\ msg' = "Saved in session."
                /\ mapping' = json_loads(txt').value)]_vars

\* C9 witness: the keys are still the Standard Fields after a successful save
\* of a table with those keys
C9_Witness ==
    /\ page = "dictionary" /\ msg = "Saved in session." /\ raw # None
    /\ mapping = TerritoryMapping /\ Keys(mapping) = StdFields

Increasing(seq) ==
    \A i \in 1..Len(seq) : \A j \in 1..Len(seq) : i < j => StrRank(seq[i].s) < StrRank(seq[j].s)

ValuesOf(t, c) == {t.rows[r][ColIdx(t, c)] : r \in 1..Len(t.rows)} \ {NaN}

\* C10 (as stated): the values offered by each category filter are the
\* sorted distinct non-missing values of the column in the unfiltered Dataset.
C10_CandidatesFromFullDataset ==
    Rendered =>
        \A c \in CatCols :
            HasCol(df, c) => (Increasing(cands[c]) /\ Range(cands[c]) = ValuesOf(df, c))

\* C10 (amended): the values offered by each category filter are the sorted
\* distinct non-missing values of the column in the Dataset as already
\* restricted, in this pass, by the date range and by the selections of the
\* category columns handled before it.
C10_CandidatesFromFilteredSoFar ==
    Rendered =>
        \A i \in 1..Len(CatOrder) :
            IF HasCol(df, CatOrder[i])
            THEN /\ Increasing(cands[CatOrder[i]])
                 /\ Range(cands[CatOrder[i]])
                      = ValuesOf(ExpectedView(df, drange, picked, i), CatOrder[i])
            ELSE cands[CatOrder[i]] = <<>>

\* C10 witness: an earlier selection removed a value from a later list
C10_Witness ==
    /\ Rendered
    /\ picked["segment"] # {}
    /\ Range(cands["region"]) # ValuesOf(df, "region")
    /\ cands["region"] # <<>>

====
